---- MODULE Spec2Model ----
(***************************************************************************)
(* A model of tdmatrixbot: the sync loop of MatrixBot.run with its cursor  *)
(* store (bot.py), the call orchestration join_call / leave_call and the   *)
(* bulk scan disconnect_from_all_calls (bot.py, homeserver.py, rtc.py).    *)
(*                                                                         *)
(* Python strings are modelled as sequences of one-character strings, so   *)
(* that split, strip, startswith and removeprefix are computed.  An        *)
(* optional string (str | None) is a record [some, val].                   *)
(*                                                                         *)
(* Every await of the code is one position (pc) of the coroutine; the      *)
(* action that leaves a position draws the outcome of the awaited call     *)
(* (a result, an error, a cancellation) and runs the synchronous code up   *)
(* to the next await.                                                      *)
(***************************************************************************)
EXTENDS Integers, Sequences, FiniteSets, TLC

\* ------------------------------------------------------------------ bounds

\* events of one sync response, summed over its rooms
MaxEvents == 2
\* RTC focus candidates in the discovery document
MaxFoci == 2
\* media sessions join_call may have connected before the model stops joining
MaxSessions == 2
\* state events in the state of one room
MaxStateEvents == 2
\* characters of a cursor string or of the content of the cursor file
MaxCursorLen == 3
\* characters of a message body
MaxBody == 4

\* ----------------------------------------------------------------- strings

None == [some |-> FALSE, val |-> <<>>]

Some(s) == [some |-> TRUE, val |-> s]

WhiteSpace == {" ", "\n"}

StartsWith(s, p) == Len(p) <= Len(s) /\ SubSeq(s, 1, Len(p)) = p

RemovePrefix(s, p) == IF StartsWith(s, p) THEN SubSeq(s, Len(p) + 1, Len(s)) ELSE s

RECURSIVE LStrip(_)
LStrip(s) == IF s # <<>> /\ Head(s) \in WhiteSpace THEN LStrip(Tail(s)) ELSE s

RECURSIVE RStrip(_)
RStrip(s) ==
    IF s # <<>> /\ s[Len(s)] \in WhiteSpace THEN RStrip(SubSeq(s, 1, Len(s) - 1)) ELSE s

Strip(s) == RStrip(LStrip(s))

\* str.split(" "): every single space separates, empty parts are kept
RECURSIVE SplitSpace(_)
SplitSpace(s) ==
    IF \E i \in 1..Len(s) : s[i] = " "
    THEN LET i == CHOOSE k \in 1..Len(s) : s[k] = " " /\ \A j \in 1..(k - 1) : s[j] # " "
         IN  <<SubSeq(s, 1, i - 1)>> \o SplitSpace(SubSeq(s, i + 1, Len(s)))
    ELSE <<s>>

\* " ".join(parts)
RECURSIVE JoinSpace(_)
JoinSpace(parts) ==
    IF parts = <<>> THEN <<>>
    ELSE IF Len(parts) = 1 THEN parts[1]
    ELSE parts[1] \o <<" ">> \o JoinSpace(Tail(parts))

\* ------------------------------------------------------------ configuration

CmdPrefix == <<"!">>

\* the command table filled by @bot.command before run()
Commands == {<<"p">>, <<"j">>}

Rooms == {"r1", "r2"}

SyncTimeoutMs == 30000

FocusPool ==
    { [type |-> "livekit", livekit_service_url |-> Some("u")],
      [type |-> "livekit", livekit_service_url |-> None],
      [type |-> "other", livekit_service_url |-> Some("u")],
      [type |-> "other", livekit_service_url |-> None] }

FociLists == UNION {[1..k -> FocusPool] : k \in 0..MaxFoci}

NoFocus == [type |-> "none", livekit_service_url |-> None]

\* next((f for f in rtc_foci if f.type == t), None), as an index (0: None)
FirstOfType(rtc_foci, t) ==
    IF \E i \in 1..Len(rtc_foci) : rtc_foci[i].type = t
    THEN CHOOSE i \in 1..Len(rtc_foci) :
            rtc_foci[i].type = t /\ \A j \in 1..(i - 1) : rtc_foci[j].type # t
    ELSE 0

\* next((f for f in rtc_foci if f.type != t), None), as an index (0: None)
FirstNotOfType(rtc_foci, t) ==
    IF \E i \in 1..Len(rtc_foci) : rtc_foci[i].type # t
    THEN CHOOSE i \in 1..Len(rtc_foci) :
            rtc_foci[i].type # t /\ \A j \in 1..(i - 1) : rtc_foci[j].type = t
    ELSE 0

\* the selection without the preference: the first candidate of the list
rtc_foci_first(rtc_foci) ==
    IF rtc_foci # <<>> THEN rtc_foci[1] ELSE NoFocus

\* MatrixClientConfig.rtc_foci_preferred
rtc_foci_preferred(rtc_foci) ==
    LET preferred == FirstOfType(rtc_foci, "livekit")
        fallback == FirstNotOfType(rtc_foci, "livekit")
    IN  IF preferred # 0 THEN rtc_foci[preferred]
        ELSE IF fallback # 0 THEN rtc_foci[fallback]
        ELSE NoFocus

\* --------------------------------------------------------- sync responses

\* what a server sends as next_batch: absent (None), or a string
Tokens == {None, Some(<<>>), Some(<<"a">>), Some(<<"b">>)}

NotAString == [isStr |-> FALSE, val |-> <<>>]

Str(s) == [isStr |-> TRUE, val |-> s]

EventPool ==
    { [type |-> "m.room.member", body |-> Str(<<"!", "p">>)],
      [type |-> "m.room.message", body |-> NotAString],
      [type |-> "m.room.message", body |-> Str(<<"h", "i">>)],
      [type |-> "m.room.message", body |-> Str(<<"!", "q">>)],
      [type |-> "m.room.message", body |-> Str(<<"!", "p", " ", "x">>)],
      [type |-> "m.room.message", body |-> Str(<<"!", "j">>)] }

Timelines == UNION {[1..k -> EventPool] : k \in 0..MaxEvents}

RECURSIVE TotalEvents(_)
TotalEvents(rs) == IF rs = <<>> THEN 0 ELSE Len(Head(rs).events) + TotalEvents(Tail(rs))

\* data["rooms"]["join"] in the order of its items(): distinct rooms, each
\* with its timeline events
Batches ==
    { b \in UNION {[1..k -> [room_id : Rooms, events : Timelines]] :
                      k \in 0..Cardinality(Rooms)} :
        /\ \A i, j \in 1..Len(b) : i # j => b[i].room_id # b[j].room_id
        /\ TotalEvents(b) <= MaxEvents }

\* data["rooms"]["join"] of the catch-up response: what the account's rooms
\* held before the first run, as no room or one room with one event (the
\* events of this response are never read, one is enough to tell)
CatchUpResponses ==
    {<<>>} \cup {<<[room_id |-> "r1", events |-> <<e>>]>> : e \in EventPool}

\* the initial content of data_dir/.next_batch
NoFile == [exists |-> FALSE, text |-> <<>>]

File(t) == [exists |-> TRUE, text |-> t]

InitialFiles == {NoFile, File(<<>>), File(<<"\n">>), File(<<"a">>), File(<<"a", "\n">>)}

\* ------------------------------------------------------------------- state

VARIABLES
    pc,          \* position of run(): the await it is suspended at, or how it ended
    transport,   \* self.homeserver.client: "none", "open" or "closed"
    closeCount,  \* invocations of HomeserverHandler.close
    rtc,         \* the focus RTCHandler was built with
    next_batch,  \* the local next_batch of run()
    batch_file,  \* data_dir/.next_batch
    request,     \* the parameters of the sync request in flight
    data,        \* data["rooms"]["join"] of the response being processed
    pos,         \* <<room index, event index>> of the event being dispatched
    room,        \* room.id of the MatrixRoom built for that event
    fired,       \* positions whose handler was invoked, in order (this response)
    sent,        \* rooms an error message was sent to, in order (this response)
    ending,      \* how run() ends once the finally clause is done
    error,       \* which call the error that ended run() came from
    cancelAt,    \* the await at which a cancellation was delivered
    savedThis,   \* the cursor of the response being processed is in batch_file
    obtained,    \* the last non-empty cursor string loaded or returned by a sync
    rtc_foci     \* discovery.client.rtc_foci, until the handlers are built from it

runVars ==
    <<pc, transport, closeCount, rtc, next_batch, batch_file, request, data, pos,
      room, fired, sent, ending, error, cancelAt, savedThis, obtained, rtc_foci>>

VARIABLES
    jpc,         \* position of join_call / leave_call: the await it is suspended at
    jroom,       \* room.id / room_id argument of the call in progress
    jfoci,       \* foci_preferred argument of join_call
    jlog,        \* the collaborator calls the call in progress has made, in order
    jresult,     \* how the last call ended: "ok" or "error"
    jerr,        \* the step whose error reached the caller
    membership,  \* per room and state key, the call.member state event content
    sessions,    \* per room, the connected rtc.Room objects
    calls,       \* per room, the MatrixCall objects returned to callers
    preMember,   \* membership when the call in progress started
    preSessions  \* sessions when the call in progress started

joinVars ==
    <<jpc, jroom, jfoci, jlog, jresult, jerr, membership, sessions, calls, preMember,
      preSessions>>

VARIABLES
    spc,         \* position of disconnect_from_all_calls
    user_id,     \* self.user_id
    room_ids,    \* the joined rooms list
    si,          \* index in room_ids of the room being scanned
    sevents,     \* the state events of that room
    sj,          \* index in sevents of the event whose leave is awaited
    seen,        \* per room scanned so far, what its state fetch returned
    leaves,      \* the rooms leave_call was invoked for, in order
    disconnected, \* the list disconnected of the scan
    serr         \* the call whose error ended the scan

scanVars == <<spc, user_id, room_ids, si, sevents, sj, seen, leaves, disconnected, serr>>

VARIABLES
    upc,         \* position of a caller that uses one operation on its own
    store,       \* the cursor file that caller's bot was constructed on
    savedArg,    \* the token argument of _save_next_batch
    loadResult,  \* what _load_next_batch returned
    body,        \* the body of the message being parsed
    cmd_prefix,  \* self.cmd_prefix
    parsed       \* what lines 182-197 of run() make of the body

unitVars == <<upc, store, savedArg, loadResult, body, cmd_prefix, parsed>>

NoRequest == [since |-> None, timeout_ms |-> -1]

NoPos == <<0, 0>>

\* ------------------------------------------------------------ cursor store

\* MatrixBot._load_next_batch
LoadNextBatch(file) ==
    IF file.exists
    THEN IF Strip(file.text) # <<>> THEN Some(Strip(file.text)) ELSE None
    ELSE None

\* _save_next_batch without the exists() test: write_text creates the file
SaveNextBatchCreates(file, token) ==
    IF token.some THEN File(token.val) ELSE file

\* MatrixBot._save_next_batch
SaveNextBatch(file, token) ==
    IF file.exists /\ token.some THEN File(token.val) ELSE file

\* HomeserverHandler.sync: the request parameters built from its arguments
SyncRequest(since, timeout_ms) ==
    [since |-> IF since.some /\ since.val # <<>> THEN since ELSE None,
     timeout_ms |-> timeout_ms]

\* ---------------------------------------------------------------- dispatch

\* lines 182-197 with body_parts[1] as cmd_value: the first word of the rest
ParseCommandFirstArg(b, prefix) ==
    LET body_parts == SplitSpace(b)
        cmd_str == body_parts[1]
    IN  [invoked |-> StartsWith(cmd_str, prefix),
         cmd_name |-> RemovePrefix(cmd_str, prefix),
         cmd_value |-> IF Len(body_parts) > 1 THEN body_parts[2] ELSE <<>>]

\* lines 182-197 of run() on a string body: whether the loop goes on to the
\* command lookup, and the cmd_name and cmd_value it then computes
ParseCommand(b, prefix) ==
    LET body_parts == SplitSpace(b)
        cmd_str == body_parts[1]
    IN  [invoked |-> StartsWith(cmd_str, prefix),
         cmd_name |-> RemovePrefix(cmd_str, prefix),
         cmd_value |-> JoinSpace(Tail(body_parts))]

\* lines 175-185 without the test of the event type
QualifiesAnyType(event) ==
    /\ event.body.isStr
    /\ ParseCommand(event.body.val, CmdPrefix).invoked

\* lines 175-185 of run(): the checks an event passes before the first await
Qualifies(event) ==
    /\ event.type = "m.room.message"
    /\ event.body.isStr
    /\ ParseCommand(event.body.val, CmdPrefix).invoked

\* cmd_name of an event that qualifies
CmdName(event) == ParseCommand(event.body.val, CmdPrefix).cmd_name

\* cmd_value of an event that qualifies
CmdValue(event) == ParseCommand(event.body.val, CmdPrefix).cmd_value

Positions(d) == {q \in (1..Len(d)) \X (1..MaxEvents) : q[2] <= Len(d[q[1]].events)}

Before(p, q) == p[1] < q[1] \/ (p[1] = q[1] /\ p[2] < q[2])

\* the nested for loops of run(): the first event after position p that
\* qualifies, NoPos when the loops run out
NextMatch(d, p) ==
    LET later == {q \in Positions(d) : Before(p, q) /\ Qualifies(d[q[1]].events[q[2]])}
    IN  IF later = {} THEN NoPos
        ELSE CHOOSE q \in later : \A o \in later : o = q \/ Before(q, o)

\* run() from the end of one event's handling to its next await: the room
\* state fetch of the next qualifying event, or the next long-poll (what is
\* recorded about the response is dropped with it)
Continue(d, p, cursor, saved, newFired, newSent) ==
    LET q == NextMatch(d, p)
    IN  IF q # NoPos
        THEN /\ pc' = "room_state"
             /\ pos' = q
             /\ data' = d
             /\ request' = NoRequest
             /\ savedThis' = saved
             /\ fired' = newFired
             /\ sent' = newSent
        ELSE /\ pc' = "poll"
             /\ pos' = NoPos
             /\ data' = <<>>
             /\ request' = SyncRequest(cursor, SyncTimeoutMs)
             /\ savedThis' = FALSE
             /\ fired' = <<>>
             /\ sent' = <<>>

\* the locals of run() and what is recorded about the response in hand:
\* dead once run() leaves its loop
DropLocals ==
    /\ next_batch' = None
    /\ request' = NoRequest
    /\ data' = <<>>
    /\ pos' = NoPos
    /\ room' = "none"
    /\ fired' = <<>>
    /\ sent' = <<>>
    /\ savedThis' = FALSE
    /\ obtained' = None

\* run() without its except clause: a cancellation goes on to the caller
FinallyNoExcept(how, what, where) ==
    /\ pc' = "closing"
    /\ ending' = "raise"
    /\ error' = IF how = "return" THEN "cancelled" ELSE what
    /\ cancelAt' = where
    /\ DropLocals
    /\ UNCHANGED <<transport, closeCount, rtc, batch_file>>

\* an error or a cancellation reaches the try statement of run(): the except
\* clause takes CancelledError, the finally clause awaits close()
Finally(how, what, where) ==
    /\ pc' = "closing"
    /\ ending' = how
    /\ error' = what
    /\ cancelAt' = where
    /\ DropLocals
    /\ UNCHANGED <<transport, closeCount, rtc, batch_file>>

\* an error leaves run() before its try statement
Raise(what, where) ==
    /\ pc' = "raised"
    /\ ending' = "raise"
    /\ error' = what
    /\ cancelAt' = where
    /\ DropLocals
    /\ UNCHANGED <<closeCount, batch_file>>

\* ------------------------------------------------------------------- run()

InitRun ==
    /\ pc = "init"
    /\ transport = "none"
    /\ closeCount = 0
    /\ rtc = NoFocus
    /\ next_batch = None
    /\ batch_file \in InitialFiles
    /\ request = NoRequest
    /\ data = <<>>
    /\ pos = NoPos
    /\ room = "none"
    /\ fired = <<>>
    /\ sent = <<>>
    /\ ending = "none"
    /\ error = "none"
    /\ cancelAt = "none"
    /\ savedThis = FALSE
    /\ obtained = None
    /\ rtc_foci = <<>>

\* lines 138-146: discovery, the choice of the focus, the two handlers
Discovery ==
    /\ pc = "init"
    /\ UNCHANGED <<joinVars, scanVars, unitVars>>
    /\ \/ /\ Raise("discovery", "none")
          /\ UNCHANGED <<transport, rtc, rtc_foci>>
       \/ \E foci \in FociLists :
            LET preferred == rtc_foci_preferred(foci)
            IN  /\ rtc_foci' = foci
                /\ IF preferred = NoFocus
                   THEN /\ Raise("rtc_foci_missing", "none")
                        /\ UNCHANGED <<transport, rtc>>
                   ELSE IF ~(preferred.livekit_service_url.some
                             /\ preferred.livekit_service_url.val # "")
                   THEN /\ Raise("rtc_handler", "none")
                        /\ transport' = "open"
                        /\ UNCHANGED rtc
                   ELSE /\ pc' = "whoami"
                        /\ transport' = "open"
                        /\ rtc' = preferred
                        /\ UNCHANGED <<closeCount, next_batch, batch_file, request,
                                       data, pos, room, fired, sent, ending, error,
                                       cancelAt, savedThis, obtained>>

\* run() with the identity lookup in a retry loop: a failed lookup is
\* awaited again
WhoamiRetries ==
    /\ pc = "whoami"
    /\ UNCHANGED <<joinVars, scanVars, unitVars>>
    /\ \/ /\ error' = "whoami"
          /\ UNCHANGED <<pc, transport, closeCount, rtc, next_batch, batch_file, request,
                         data, pos, room, fired, sent, ending, cancelAt, savedThis,
                         obtained, rtc_foci>>
       \/ /\ Raise("cancelled", "whoami")
          /\ rtc_foci' = <<>>
          /\ UNCHANGED <<transport, rtc>>
       \/ LET loaded == LoadNextBatch(batch_file)
          IN  /\ next_batch' = loaded
              /\ obtained' = loaded
              /\ rtc_foci' = <<>>
              /\ IF loaded = None
                 THEN /\ pc' = "catchup"
                      /\ request' = SyncRequest(None, 0)
                 ELSE /\ pc' = "poll"
                      /\ request' = SyncRequest(loaded, SyncTimeoutMs)
              /\ UNCHANGED <<transport, closeCount, rtc, batch_file, data, pos, room,
                             fired, sent, ending, error, cancelAt, savedThis>>

\* lines 148-162: the identity lookup returns; the cursor is loaded and the
\* catch-up sync or the first long-poll is issued
Whoami ==
    /\ pc = "whoami"
    /\ rtc_foci' = <<>>
    /\ UNCHANGED <<joinVars, scanVars, unitVars>>
    /\ \/ /\ Raise("whoami", "none")
          /\ UNCHANGED <<transport, rtc>>
       \/ /\ Raise("cancelled", "whoami")
          /\ UNCHANGED <<transport, rtc>>
       \/ LET loaded == LoadNextBatch(batch_file)
          IN  /\ next_batch' = loaded
              /\ obtained' = loaded
              /\ IF loaded = None
                 THEN /\ pc' = "catchup"
                      /\ request' = SyncRequest(None, 0)
                 ELSE /\ pc' = "poll"
                      /\ request' = SyncRequest(loaded, SyncTimeoutMs)
              /\ UNCHANGED <<transport, closeCount, rtc, batch_file, data, pos, room,
                             fired, sent, ending, error, cancelAt, savedThis>>

\* lines 158-165: the catch-up sync returns; its events stay in data, unread,
\* its cursor is saved and the first long-poll is issued
CatchUp ==
    /\ pc = "catchup"
    /\ UNCHANGED rtc_foci
    /\ UNCHANGED <<joinVars, scanVars, unitVars>>
    /\ \/ /\ Raise("sync", "none")
          /\ UNCHANGED <<transport, rtc>>
       \/ /\ Raise("cancelled", "catchup")
          /\ UNCHANGED <<transport, rtc>>
       \/ \E token \in Tokens, batch \in CatchUpResponses :
            /\ next_batch' = token
            /\ batch_file' = SaveNextBatch(batch_file, token)
            /\ obtained' = IF token.some /\ token.val # <<>> THEN token ELSE obtained
            /\ data' = batch
            /\ pc' = "poll"
            /\ request' = SyncRequest(token, SyncTimeoutMs)
            /\ UNCHANGED <<transport, closeCount, rtc, pos, room, fired, sent,
                           ending, error, cancelAt, savedThis>>

\* run() with the long-poll in a retry wrapper: a failed sync is issued
\* again with the same cursor
PollRetries ==
    /\ pc = "poll"
    /\ UNCHANGED rtc_foci
    /\ UNCHANGED <<joinVars, scanVars, unitVars>>
    /\ \/ /\ error' = "sync"
          /\ UNCHANGED <<pc, transport, closeCount, rtc, next_batch, batch_file, request,
                         data, pos, room, fired, sent, ending, cancelAt, savedThis,
                         obtained>>
       \/ Finally("return", "none", "poll")
       \/ \E token \in Tokens, batch \in Batches :
            /\ next_batch' = token
            /\ batch_file' = SaveNextBatch(batch_file, token)
            /\ obtained' = IF token.some /\ token.val # <<>> THEN token ELSE obtained
            /\ Continue(batch, NoPos, token, batch_file.exists /\ token.some, <<>>, <<>>)
            /\ UNCHANGED <<transport, closeCount, rtc, room, ending, error, cancelAt>>

\* lines 165-191: a long-poll returns; the cursor is saved and the events
\* are walked up to the first one that needs the room state
Poll ==
    /\ pc = "poll"
    /\ UNCHANGED rtc_foci
    /\ UNCHANGED <<joinVars, scanVars, unitVars>>
    /\ \/ Finally("raise", "sync", "none")
       \/ Finally("return", "none", "poll")
       \/ \E token \in Tokens, batch \in Batches :
            /\ next_batch' = token
            /\ batch_file' = SaveNextBatch(batch_file, token)
            /\ obtained' = IF token.some /\ token.val # <<>> THEN token ELSE obtained
            /\ Continue(batch, NoPos, token, batch_file.exists /\ token.some, <<>>, <<>>)
            /\ UNCHANGED <<transport, closeCount, rtc, room, ending, error, cancelAt>>

\* run() with the handler started as a task of its own instead of awaited:
\* the loops go on while the handler runs
RoomStateFireAndForget ==
    /\ pc = "room_state"
    /\ UNCHANGED rtc_foci
    /\ UNCHANGED <<joinVars, scanVars, unitVars>>
    /\ \/ Finally("raise", "room_state", "none")
       \/ Finally("return", "none", "room_state")
       \/ Finally("raise", "from_state_events", "none")
       \/ /\ room' = data[pos[1]].room_id
          /\ IF CmdName(data[pos[1]].events[pos[2]]) \in Commands
             THEN Continue(data, pos, next_batch, savedThis, Append(fired, pos), sent)
             ELSE Continue(data, pos, next_batch, savedThis, fired, sent)
          /\ UNCHANGED <<transport, closeCount, rtc, next_batch, batch_file,
                         ending, error, cancelAt, obtained>>

\* lines 191-203: the room state fetch returns; the room is built, the
\* command is looked up and its handler is invoked
RoomState ==
    /\ pc = "room_state"
    /\ UNCHANGED rtc_foci
    /\ UNCHANGED <<joinVars, scanVars, unitVars>>
    /\ \/ Finally("raise", "room_state", "none")
       \/ Finally("return", "none", "room_state")
       \/ \* the state holds no m.room.name event: from_state_events raises
          Finally("raise", "from_state_events", "none")
       \/ /\ room' = data[pos[1]].room_id
          /\ IF CmdName(data[pos[1]].events[pos[2]]) \in Commands
             THEN /\ pc' = "handler"
                  /\ fired' = Append(fired, pos)
                  /\ UNCHANGED <<request, data, pos, sent, savedThis>>
             ELSE Continue(data, pos, next_batch, savedThis, fired, sent)
          /\ UNCHANGED <<transport, closeCount, rtc, next_batch, batch_file,
                         ending, error, cancelAt, obtained>>

\* lines 202-207: the handler returns, raises or is cancelled
Handler ==
    /\ pc = "handler"
    /\ UNCHANGED rtc_foci
    /\ UNCHANGED <<joinVars, scanVars, unitVars>>
    /\ \/ /\ Continue(data, pos, next_batch, savedThis, fired, sent)
          /\ UNCHANGED <<transport, closeCount, rtc, next_batch, batch_file, room,
                         ending, error, cancelAt, obtained>>
       \/ /\ pc' = "send_error"
          /\ UNCHANGED <<transport, closeCount, rtc, next_batch, batch_file, request,
                         data, pos, room, fired, sent, ending, error, cancelAt,
                         savedThis, obtained>>
       \/ Finally("return", "none", "handler")

\* lines 205-207: send_message of the error reply returns, fails or is cancelled
SendError ==
    /\ pc = "send_error"
    /\ UNCHANGED rtc_foci
    /\ UNCHANGED <<joinVars, scanVars, unitVars>>
    /\ \/ /\ Continue(data, pos, next_batch, savedThis, fired, Append(sent, room))
          /\ UNCHANGED <<transport, closeCount, rtc, next_batch, batch_file, room,
                         ending, error, cancelAt, obtained>>
       \/ Finally("raise", "send_message", "none")
       \/ Finally("return", "none", "send_message")

\* lines 211-212: the finally clause's close() is done; run() returns or the
\* error goes on to the caller
Close ==
    /\ pc = "closing"
    /\ UNCHANGED rtc_foci
    /\ UNCHANGED <<joinVars, scanVars, unitVars>>
    /\ transport' = "closed"
    /\ closeCount' = closeCount + 1
    /\ pc' = IF ending = "return" THEN "returned" ELSE "raised"
    /\ UNCHANGED <<rtc, next_batch, batch_file, request, data, pos, room, fired, sent,
                   ending, error, cancelAt, savedThis, obtained>>

Running == pc \in {"init", "whoami", "catchup", "poll", "room_state", "handler",
                   "send_error", "closing"}

\* the process is killed: nothing of run() executes any more, only the
\* file outlives it
Crash ==
    /\ Running
    /\ UNCHANGED <<joinVars, scanVars, unitVars>>
    /\ pc' = "crashed"
    /\ transport' = "none"
    /\ closeCount' = 0
    /\ rtc' = NoFocus
    /\ ending' = "none"
    /\ error' = "none"
    /\ cancelAt' = "none"
    /\ rtc_foci' = <<>>
    /\ DropLocals
    /\ UNCHANGED batch_file

\* a new process constructs the bot and calls run()
Restart ==
    /\ pc \in {"crashed", "returned", "raised"}
    /\ UNCHANGED <<joinVars, scanVars, unitVars>>
    /\ pc' = "init"
    /\ transport' = "none"
    /\ closeCount' = 0
    /\ rtc' = NoFocus
    /\ ending' = "none"
    /\ error' = "none"
    /\ cancelAt' = "none"
    /\ rtc_foci' = <<>>
    /\ DropLocals
    /\ UNCHANGED batch_file

\* ------------------------------------------- join_call and leave_call

\* the identity run() takes from whoami
BotUser == <<"@", "b">>

OtherUser == <<"@", "c">>

\* a user whose id starts with the bot's
LongUser == <<"@", "b", "b">>

UserIds == {BotUser, OtherUser, LongUser}

device_id == <<"D">>

\* the state key user_join_call and user_leave_call build
StateKey(user, device) ==
    <<"_">> \o user \o <<"_">> \o device \o <<"_", "m", ".", "c", "a", "l", "l">>

StateKeys == {StateKey(u, device_id) : u \in UserIds}

\* state_key of user_join_call (line 188)
JoinKey(user, device) ==
    <<"_">> \o user \o <<"_">> \o device \o <<"_", "m", ".", "c", "a", "l", "l">>

\* user_leave_call with a key built from the user id alone
LeaveKeyNoDevice(user, device) ==
    <<"_">> \o user \o <<"_", "m", ".", "c", "a", "l", "l">>

\* state_key of user_leave_call (line 213)
LeaveKey(user, device) ==
    <<"_">> \o user \o <<"_">> \o device \o <<"_", "m", ".", "c", "a", "l", "l">>

\* the foci_preferred argument a handler passes to join_call
FociArgs == {<<>>, <<[type |-> "livekit", livekit_service_url |-> Some("u")]>>}

JoinOrder == <<"user_openid_token", "get_token", "user_join_call", "connect",
               "publish_track">>

IdleJoin ==
    /\ jpc = "idle"
    /\ jroom = "none"
    /\ jfoci = <<>>
    /\ jlog = <<>>
    /\ jresult = "none"
    /\ jerr = "none"
    /\ membership = [r \in Rooms |-> [k \in StateKeys |-> "absent"]]
    /\ sessions = [r \in Rooms |-> 0]
    /\ calls = [r \in Rooms |-> 0]
    /\ preMember = [r \in Rooms |-> [k \in StateKeys |-> "absent"]]
    /\ preSessions = [r \in Rooms |-> 0]

\* the call in progress ends with an error that reaches its caller
JoinFails(step) ==
    /\ jpc' = "idle"
    /\ jresult' = "error"
    /\ jerr' = step

RECURSIVE Sum(_, _)
Sum(f, S) == IF S = {} THEN 0 ELSE LET x == CHOOSE y \in S : TRUE IN f[x] + Sum(f, S \ {x})

\* a handler calls join_call(room, foci_preferred): line 83 awaits the
\* OpenID token
StartJoin ==
    /\ jpc = "idle"
    /\ Sum(sessions, Rooms) < MaxSessions
    /\ \E r \in Rooms, foci \in FociArgs :
         /\ jroom' = r
         /\ jfoci' = foci
    /\ jpc' = "user_openid_token"
    /\ jlog' = <<"user_openid_token">>
    /\ jresult' = "none"
    /\ jerr' = "none"
    /\ preMember' = membership
    /\ preSessions' = sessions
    /\ UNCHANGED <<membership, sessions, calls>>
    /\ UNCHANGED <<runVars, scanVars, unitVars>>

\* line 83 returns or raises; line 84 awaits the RTC token
OpenIdToken ==
    /\ jpc = "user_openid_token"
    /\ \/ /\ JoinFails("user_openid_token")
          /\ UNCHANGED jlog
       \/ /\ jpc' = "get_token"
          /\ jlog' = Append(jlog, "get_token")
          /\ UNCHANGED <<jresult, jerr>>
    /\ UNCHANGED <<jroom, jfoci, membership, sessions, calls, preMember, preSessions>>
    /\ UNCHANGED <<runVars, scanVars, unitVars>>

\* join_call with the error of get_token caught: it goes on to user_join_call
GetTokenErrorCaught ==
    /\ jpc = "get_token"
    /\ \/ /\ jerr' = "get_token"
          /\ UNCHANGED jresult
       \/ UNCHANGED <<jresult, jerr>>
    /\ jlog' = Append(jlog, "user_join_call")
    /\ jpc' = "user_join_call"
    /\ UNCHANGED <<jroom, jfoci, membership, sessions, calls, preMember, preSessions>>
    /\ UNCHANGED <<runVars, scanVars, unitVars>>

\* line 84 returns or raises; lines 87-89 call user_join_call, which takes
\* foci_preferred[0] and awaits the state write
GetToken ==
    /\ jpc = "get_token"
    /\ \/ /\ JoinFails("get_token")
          /\ UNCHANGED jlog
       \/ /\ jlog' = Append(jlog, "user_join_call")
          /\ IF jfoci = <<>>
             THEN JoinFails("user_join_call")
             ELSE /\ jpc' = "user_join_call"
                  /\ UNCHANGED <<jresult, jerr>>
    /\ UNCHANGED <<jroom, jfoci, membership, sessions, calls, preMember, preSessions>>
    /\ UNCHANGED <<runVars, scanVars, unitVars>>

\* the state write of user_join_call returns or raises; lines 91-93 call
\* rtc.join_room, which awaits room.connect
JoinState ==
    /\ jpc = "user_join_call"
    /\ \/ /\ JoinFails("user_join_call")
          /\ UNCHANGED <<jlog, membership>>
       \/ /\ membership' =
                [membership EXCEPT ![jroom][JoinKey(BotUser, device_id)] = "member"]
          /\ jpc' = "connect"
          /\ jlog' = Append(jlog, "connect")
          /\ UNCHANGED <<jresult, jerr>>
    /\ UNCHANGED <<jroom, jfoci, sessions, calls, preMember, preSessions>>
    /\ UNCHANGED <<runVars, scanVars, unitVars>>

\* join_call with a compensating leave: when room.connect fails the
\* membership written at step 3 is overwritten with empty content
ConnectRollsBack ==
    /\ jpc = "connect"
    /\ \/ /\ JoinFails("connect")
          /\ membership' =
                [membership EXCEPT ![jroom][LeaveKey(BotUser, device_id)] = "empty"]
          /\ UNCHANGED <<jlog, sessions>>
       \/ /\ sessions' = [sessions EXCEPT ![jroom] = @ + 1]
          /\ jpc' = "publish_track"
          /\ jlog' = Append(jlog, "publish_track")
          /\ UNCHANGED <<jresult, jerr, membership>>
    /\ UNCHANGED <<jroom, jfoci, calls, preMember, preSessions>>
    /\ UNCHANGED <<runVars, scanVars, unitVars>>

\* room.connect returns or raises; join_room awaits publish_track
Connect ==
    /\ jpc = "connect"
    /\ \/ /\ JoinFails("connect")
          /\ UNCHANGED <<jlog, sessions>>
       \/ /\ sessions' = [sessions EXCEPT ![jroom] = @ + 1]
          /\ jpc' = "publish_track"
          /\ jlog' = Append(jlog, "publish_track")
          /\ UNCHANGED <<jresult, jerr>>
    /\ UNCHANGED <<jroom, jfoci, membership, calls, preMember, preSessions>>
    /\ UNCHANGED <<runVars, scanVars, unitVars>>

\* publish_track returns or raises; lines 95-104 return the MatrixCall
PublishTrack ==
    /\ jpc = "publish_track"
    /\ \/ /\ JoinFails("publish_track")
          /\ UNCHANGED calls
       \/ /\ jpc' = "idle"
          /\ jresult' = "ok"
          /\ calls' = [calls EXCEPT ![jroom] = @ + 1]
          /\ UNCHANGED jerr
    /\ UNCHANGED <<jroom, jfoci, jlog, membership, sessions, preMember, preSessions>>
    /\ UNCHANGED <<runVars, scanVars, unitVars>>

\* a handler calls leave_call(room_id): user_leave_call awaits its state write
StartLeave ==
    /\ jpc = "idle"
    /\ \E r \in Rooms : jroom' = r
    /\ jfoci' = <<>>
    /\ jpc' = "user_leave_call"
    /\ jlog' = <<"user_leave_call">>
    /\ jresult' = "none"
    /\ jerr' = "none"
    /\ preMember' = membership
    /\ preSessions' = sessions
    /\ UNCHANGED <<membership, sessions, calls>>
    /\ UNCHANGED <<runVars, scanVars, unitVars>>

\* the state write of user_leave_call returns or raises
LeaveState ==
    /\ jpc = "user_leave_call"
    /\ \/ /\ JoinFails("user_leave_call")
          /\ UNCHANGED membership
       \/ /\ membership' =
                [membership EXCEPT ![jroom][LeaveKey(BotUser, device_id)] = "empty"]
          /\ jpc' = "idle"
          /\ jresult' = "ok"
          /\ UNCHANGED jerr
    /\ UNCHANGED <<jroom, jfoci, jlog, sessions, calls, preMember, preSessions>>
    /\ UNCHANGED <<runVars, scanVars, unitVars>>

\* ------------------------------------------- disconnect_from_all_calls

CallMember == "org.matrix.msc3401.call.member"

\* the rooms joined_room_ids returns: the names are labels, so one order
ScanRoomLists == {<<>>, <<"r1">>, <<"r1", "r2">>, <<"r1", "r2", "r3">>}

StateEventPool ==
    { [type |-> "m.room.name", state_key |-> Some(<<>>)],
      [type |-> "m.room.member", state_key |-> Some(StateKey(BotUser, device_id))],
      [type |-> CallMember, state_key |-> None],
      [type |-> CallMember, state_key |-> Some(StateKey(BotUser, device_id))],
      [type |-> CallMember, state_key |-> Some(StateKey(OtherUser, device_id))],
      [type |-> CallMember, state_key |-> Some(StateKey(LongUser, device_id))] }

StateEventLists == UNION {[1..k -> StateEventPool] : k \in 0..MaxStateEvents}

\* the prefix test without the underscore that ends the user id
ScanMatchesOpenPrefix(event, user) ==
    /\ event.type = CallMember
    /\ StartsWith(IF event.state_key.some THEN event.state_key.val ELSE <<>>,
                  <<"_">> \o user)

\* lines 121-126: the event is a call.member event under a key of this user
ScanMatches(event, user) ==
    /\ event.type = CallMember
    /\ StartsWith(IF event.state_key.some THEN event.state_key.val ELSE <<>>,
                  <<"_">> \o user \o <<"_">>)

\* the for loop over state_events: the first event after index j that
\* matches, 0 when the loop runs out
NextOwn(events, j, user) ==
    IF \E i \in (j + 1)..Len(events) : ScanMatches(events[i], user)
    THEN CHOOSE i \in (j + 1)..Len(events) :
            /\ ScanMatches(events[i], user)
            /\ \A k \in (j + 1)..(i - 1) : ~ScanMatches(events[k], user)
    ELSE 0

IdleScan ==
    /\ spc = "idle"
    /\ user_id = BotUser
    /\ room_ids = <<>>
    /\ si = 0
    /\ sevents = <<>>
    /\ sj = 0
    /\ seen = <<>>
    /\ leaves = <<>>
    /\ disconnected = <<>>
    /\ serr = "none"

\* the for loop over room_ids goes to its next room, or the scan returns
NextRoom ==
    /\ IF si < Len(room_ids)
       THEN /\ spc' = "room_state"
            /\ si' = si + 1
       ELSE /\ spc' = "done"
            /\ UNCHANGED si
    /\ sevents' = <<>>
    /\ sj' = 0
    /\ UNCHANGED <<leaves, serr>>

\* the for loop over state_events goes on after index j: the leave of the
\* next matching event is awaited, or the room is done
ScanContinue(events, j) ==
    LET k == NextOwn(events, j, user_id)
    IN  IF k # 0
        THEN /\ spc' = "leave_call"
             /\ sevents' = events
             /\ sj' = k
             /\ leaves' = Append(leaves, room_ids[si])
             /\ UNCHANGED <<si, serr>>
        ELSE NextRoom

\* an error that is no HTTPStatusError leaves the scan
ScanRaises(what) ==
    /\ spc' = "raised"
    /\ serr' = what
    /\ UNCHANGED <<si, sevents, sj, leaves>>

\* disconnect_from_all_calls is called: line 115 awaits the joined rooms
StartScan ==
    /\ spc = "idle"
    /\ spc' = "joined_room_ids"
    /\ UNCHANGED <<user_id, room_ids, si, sevents, sj, seen, leaves, disconnected, serr>>
    /\ UNCHANGED <<runVars, joinVars, unitVars>>

\* line 115 returns or raises; the first room's state is awaited
JoinedRoomIds ==
    /\ spc = "joined_room_ids"
    /\ \/ /\ ScanRaises("joined_room_ids")
          /\ UNCHANGED room_ids
       \/ \E ids \in ScanRoomLists :
            /\ room_ids' = ids
            /\ IF ids = <<>>
               THEN /\ spc' = "done"
                    /\ UNCHANGED si
               ELSE /\ spc' = "room_state"
                    /\ si' = 1
            /\ UNCHANGED <<sevents, sj, leaves, serr>>
    /\ UNCHANGED <<user_id, seen, disconnected>>
    /\ UNCHANGED <<runVars, joinVars, unitVars>>

Seen(result, own, foreign) == [result |-> result, own |-> own, foreign |-> foreign]

\* the state the server holds has a call.member event of this user
HasOwnMembership(events, user) ==
    \E i \in 1..Len(events) :
        /\ events[i].type = CallMember
        /\ events[i].state_key.some
        /\ StartsWith(events[i].state_key.val, <<"_">> \o user \o <<"_">>)

\* the state the server holds has a call.member event of somebody else
HasForeignMembership(events, user) ==
    \E i \in 1..Len(events) :
        /\ events[i].type = CallMember
        /\ events[i].state_key.some
        /\ ~StartsWith(events[i].state_key.val, <<"_">> \o user \o <<"_">>)

\* line 119 returns or raises: an HTTPStatusError is caught at line 131
ScanRoomState ==
    /\ spc = "room_state"
    /\ \/ /\ seen' = Append(seen, Seen("status_error", FALSE, FALSE))
          /\ NextRoom
       \/ /\ seen' = Append(seen, Seen("other_error", FALSE, FALSE))
          /\ ScanRaises("room_state")
       \/ \E events \in StateEventLists :
            /\ seen' = Append(seen, Seen("ok", HasOwnMembership(events, user_id),
                                         HasForeignMembership(events, user_id)))
            /\ ScanContinue(events, 0)
    /\ UNCHANGED <<user_id, room_ids, disconnected>>
    /\ UNCHANGED <<runVars, joinVars, unitVars>>

\* line 127 returns or raises: an HTTPStatusError is caught at line 131
ScanLeave ==
    /\ spc = "leave_call"
    /\ \/ /\ disconnected' = Append(disconnected, room_ids[si])
          /\ ScanContinue(sevents, sj)
       \/ /\ NextRoom
          /\ UNCHANGED disconnected
       \/ /\ ScanRaises("leave_call")
          /\ UNCHANGED disconnected
    /\ UNCHANGED <<user_id, room_ids, seen>>
    /\ UNCHANGED <<runVars, joinVars, unitVars>>

\* ------------------------------------------- the cursor store on its own

\* a bot that was constructed and whose run() has not been called
IdleRun ==
    /\ InitRun
    /\ batch_file = NoFile

\* cursor strings and file contents of up to MaxCursorLen characters
CursorStrings == UNION {[1..k -> {"a", " ", "\n"}] : k \in 0..MaxCursorLen}

StoreFiles == {NoFile} \cup {File(t) : t \in CursorStrings}

NoParse == [invoked |-> FALSE, cmd_name |-> <<>>, cmd_value |-> <<>>]

IdleUnit ==
    /\ upc = "idle"
    /\ store = NoFile
    /\ savedArg = <<>>
    /\ loadResult = None
    /\ body = <<>>
    /\ cmd_prefix = CmdPrefix
    /\ parsed = NoParse

\* a caller has a bot on some data_dir and is about to save x, or to load
InitStore ==
    /\ IdleRun
    /\ IdleJoin
    /\ IdleScan
    /\ upc \in {"save", "load"}
    /\ store \in StoreFiles
    /\ savedArg \in CursorStrings
    /\ loadResult = None
    /\ body = <<>>
    /\ cmd_prefix = CmdPrefix
    /\ parsed = NoParse

\* _save_next_batch(token) returns
Save ==
    /\ upc = "save"
    /\ store' = SaveNextBatch(store, Some(savedArg))
    /\ upc' = "saved"
    /\ UNCHANGED <<savedArg, loadResult, body, cmd_prefix, parsed>>
    /\ UNCHANGED <<runVars, joinVars, scanVars>>

\* _load_next_batch() returns
Load ==
    /\ upc \in {"load", "saved"}
    /\ loadResult' = LoadNextBatch(store)
    /\ upc' = IF upc = "saved" THEN "reloaded" ELSE "loaded"
    /\ UNCHANGED <<store, savedArg, body, cmd_prefix, parsed>>
    /\ UNCHANGED <<runVars, joinVars, scanVars>>

\* --------------------------------------------- command parsing on its own

\* message bodies of up to MaxBody characters
Bodies == UNION {[1..k -> {"!", "p", " ", "\n"}] : k \in 0..MaxBody}

Prefixes == {<<"!">>, <<"!", "!">>}

\* a message with a string body reaches line 182 of a bot with some prefix
InitParse ==
    /\ IdleRun
    /\ IdleJoin
    /\ IdleScan
    /\ upc = "parse"
    /\ store = NoFile
    /\ savedArg = <<>>
    /\ loadResult = None
    /\ body \in Bodies
    /\ cmd_prefix \in Prefixes
    /\ parsed = NoParse

\* lines 182-197
Parse ==
    /\ upc = "parse"
    /\ parsed' = ParseCommand(body, cmd_prefix)
    /\ upc' = "parsed"
    /\ UNCHANGED <<store, savedArg, loadResult, body, cmd_prefix>>
    /\ UNCHANGED <<runVars, joinVars, scanVars>>

\* ---------------------------------------------------------- specifications

vars == <<runVars, joinVars, scanVars, unitVars>>

\* the sync loop, with crashes and restarts of the process
Init == InitRun /\ IdleJoin /\ IdleScan /\ IdleUnit

Next ==
    \/ Discovery
    \/ Whoami
    \/ CatchUp
    \/ Poll
    \/ RoomState
    \/ Handler
    \/ SendError
    \/ Close
    \/ Crash
    \/ Restart

Spec == Init /\ [][Next]_vars

\* a sequence of join_call and leave_call, as the handlers of one loop make
InitJoin == IdleRun /\ IdleJoin /\ IdleScan /\ IdleUnit

NextJoin ==
    \/ StartJoin
    \/ OpenIdToken
    \/ GetToken
    \/ JoinState
    \/ Connect
    \/ PublishTrack
    \/ StartLeave
    \/ LeaveState

SpecJoin == InitJoin /\ [][NextJoin]_vars

\* one disconnect_from_all_calls, for either identity
InitScan ==
    /\ IdleRun
    /\ IdleJoin
    /\ IdleUnit
    /\ spc = "idle"
    /\ user_id \in {BotUser, OtherUser}
    /\ room_ids = <<>>
    /\ si = 0
    /\ sevents = <<>>
    /\ sj = 0
    /\ seen = <<>>
    /\ leaves = <<>>
    /\ disconnected = <<>>
    /\ serr = "none"

NextScan ==
    \/ StartScan
    \/ JoinedRoomIds
    \/ ScanRoomState
    \/ ScanLeave

SpecScan == InitScan /\ [][NextScan]_vars

\* one save followed by a load, or a load alone, on every store
NextStore ==
    \/ Save
    \/ Load

SpecStore == InitStore /\ [][NextStore]_vars

\* the parsing of one body
NextParse == Parse

SpecParse == InitParse /\ [][NextParse]_vars

\* ------------------------------------------------------- claims on run()

InLoopAwaits == {"poll", "room_state", "handler", "send_message"}

\* C1: the cursor of a sync response is written to the cursor store only
\* after every timeline event of that response has been dispatched or
\* attempted: while an event of the response in hand still waits for its
\* dispatch, that response's cursor is not in the store.
C1_CursorSavedAfterDispatch == ~(savedThis /\ pc = "room_state")

\* C2: a handler error never ends the run loop, whatever the homeserver
\* does: once a handler has raised, the next step of run() goes on with the
\* batch or the next poll (only a cancellation or the death of the process
\* may end it there).
C2_HandlerErrorKeepsLoop ==
    [][pc = "send_error" =>
          \/ pc' \in {"send_error", "room_state", "poll", "crashed"}
          \/ pc' = "closing" /\ cancelAt' # "none"]_vars

\* C4: on every path by which run() ends after the homeserver transport was
\* created, close has been invoked exactly once.
C4_CloseOnEveryExit ==
    (pc \in {"returned", "raised"} /\ transport # "none") => closeCount = 1

\* C5: a cancellation delivered while the loop waits for a long-poll, a room
\* state, a handler or the error reply takes run() out of the poll/process
\* cycle: the transport is closed once, run() returns normally (nothing is
\* re-raised) and no poll is issued after the cancellation.
C5_CancelShutsDown ==
    /\ [][(cancelAt = "none" /\ cancelAt' \in InLoopAwaits) =>
             (pc' = "closing" /\ ending' = "return" /\ request' = NoRequest)]_vars
    /\ [][(pc = "closing" /\ cancelAt \in InLoopAwaits) =>
             (pc' \in {"closing", "returned", "crashed"} /\ request' = NoRequest)]_vars
    /\ []((pc = "returned" /\ cancelAt \in InLoopAwaits) =>
             (closeCount = 1 /\ transport = "closed" /\ ending = "return"
              /\ request = NoRequest))
    /\ [](pc = "raised" => cancelAt \notin InLoopAwaits)

C5_Witness == pc = "returned" /\ cancelAt = "handler" /\ closeCount = 1

\* C8: delivery is at-least-once across a crash: when the process stops
\* while an event of the received response still waits for its dispatch,
\* the persisted cursor is not yet that response's cursor.
C8_CrashKeepsBatch ==
    [][(pc = "room_state" /\ pc' = "crashed") => ~savedThis]_vars

\* C9: with the cursor file present, each step that takes a successful sync
\* response (catch-up or long-poll) leaves the file holding exactly the
\* cursor the loop holds for its next poll.
C9_PersistedEqualsHeld ==
    [][(pc \in {"catchup", "poll"} /\ pc' \in {"poll", "room_state"}
        /\ batch_file.exists) =>
          (next_batch'.some /\ batch_file'.text = next_batch'.val)]_vars

\* C10: the cursor is never rewound: once a cursor has been obtained (from
\* the store or from a sync), every long-poll in flight carries the most
\* recently obtained cursor as its since, never none.
C10_CursorNeverRewound ==
    (pc = "poll" /\ obtained.some) => request.since = obtained

\* ---------------------------------------- claims on the call orchestration

IsPrefix(a, b) == Len(a) <= Len(b) /\ SubSeq(b, 1, Len(a)) = a

IsJoin == jlog # <<>> /\ jlog[1] # "user_leave_call"

\* C3: join_call makes its calls in the order OpenID token, RTC token,
\* membership state write, connect, publish; the first failing step is the
\* last call it makes and its error reaches the caller; when the RTC token
\* exchange fails, no membership is written and no media session connected.
C3_JoinOrderShortCircuit ==
    IsJoin =>
        /\ IsPrefix(jlog, JoinOrder)
        /\ jerr # "none" => (jpc = "idle" /\ jresult = "error" /\ jerr = jlog[Len(jlog)])
        /\ (jpc = "idle" /\ jresult = "ok") => jlog = JoinOrder
        /\ jerr = "get_token" => (membership = preMember /\ sessions = preSessions)
        /\ membership # preMember => Len(jlog) >= 4
        /\ sessions # preSessions => Len(jlog) >= 5

C3_Witness ==
    /\ IsJoin
    /\ jpc = "idle"
    /\ jerr = "get_token"
    /\ jlog = <<"user_openid_token", "get_token">>
    /\ membership[jroom][JoinKey(BotUser, device_id)] = "absent"

\* join_call has ended with the error of room.connect or of publish_track
Step4Failed == IsJoin /\ jpc = "idle" /\ jerr \in {"connect", "publish_track"}

\* C19: join_call never rolls back: when the media connect or publish
\* fails after the membership was written, join_call makes no leave and no
\* other call, the room keeps the bot's membership event although no call
\* was established (no MatrixCall is returned), and the step that fails
\* undoes nothing of what the steps before it did (the membership stays
\* written, a session that was connected stays connected).
C19_JoinNeverRollsBack ==
    /\ [](IsJoin => \A n \in 1..Len(jlog) : n <= Len(JoinOrder) /\ jlog[n] = JoinOrder[n])
    /\ [](Step4Failed =>
            (/\ membership[jroom][JoinKey(BotUser, device_id)] = "member"
             /\ \A r \in Rooms, k \in StateKeys :
                   (r # jroom \/ k # JoinKey(BotUser, device_id)) =>
                       membership[r][k] = preMember[r][k]
             /\ sessions[jroom] =
                   preSessions[jroom] + (IF jerr = "publish_track" THEN 1 ELSE 0)))
    /\ [][(IsJoin /\ jerr = "none" /\ jerr' # "none") =>
            (membership' = membership /\ sessions' = sessions /\ calls' = calls)]_vars
    /\ [][(IsJoin /\ jpc \in {"connect", "publish_track"}) =>
            (/\ membership'[jroom][JoinKey(BotUser, device_id)] = "member"
             /\ sessions'[jroom] >= sessions[jroom])]_vars

C19_Witness ==
    /\ Step4Failed
    /\ jerr = "connect"
    /\ preMember[jroom][JoinKey(BotUser, device_id)] = "absent"
    /\ membership[jroom][JoinKey(BotUser, device_id)] = "member"
    /\ sessions[jroom] = 0
    /\ calls[jroom] = 0

IsLeave == jlog # <<>> /\ jlog[1] = "user_leave_call"

\* C17: leave_call is one state write of empty content under the key
\* _{userId}_{deviceId}_m.call of the room, the key user_join_call writes:
\* after a leave that succeeded the content under that key is empty,
\* whatever it was before (a membership, nothing, or already empty), and
\* nothing else of the membership state has changed; a leave that failed
\* has changed nothing.
C17_LeaveIdempotentSameKey ==
    /\ JoinKey(BotUser, device_id) =
          <<"_", "@", "b", "_", "D", "_", "m", ".", "c", "a", "l", "l">>
    /\ \A u \in UserIds : LeaveKey(u, device_id) = JoinKey(u, device_id)
    /\ IsLeave =>
          /\ jlog = <<"user_leave_call">>
          /\ (jpc = "idle" /\ jresult = "ok") =>
                /\ membership[jroom][JoinKey(BotUser, device_id)] = "empty"
                /\ \A r \in Rooms, k \in StateKeys :
                      (r # jroom \/ k # JoinKey(BotUser, device_id)) =>
                          membership[r][k] = preMember[r][k]
          /\ (jpc = "user_leave_call" \/ jresult = "error") => membership = preMember

\* a leave after a join that succeeded
C17_Witness ==
    /\ IsLeave
    /\ jpc = "idle"
    /\ jresult = "ok"
    /\ calls[jroom] >= 1
    /\ preMember[jroom][JoinKey(BotUser, device_id)] = "member"
    /\ membership[jroom][JoinKey(BotUser, device_id)] = "empty"

\* C23: a call session lives only for the duration of the call: after a
\* leave_call for a room has completed, no media session connected by an
\* earlier join_call for that room is still connected, and whatever the
\* sequence of joins and leaves, a room has at most one connected media
\* session of this bot.
C23_SessionEndsWithLeave ==
    /\ (IsLeave /\ jpc = "idle" /\ jresult = "ok") => sessions[jroom] = 0
    /\ \A r \in Rooms : sessions[r] <= 1

\* ------------------------------------------------ claims on the bulk scan

Left(k) == \E n \in 1..Len(leaves) : leaves[n] = room_ids[k]

\* C6: the scan issues the leave for exactly the rooms whose fetched state
\* has a call-membership event under a key starting with _{userId}_ : a
\* room whose state fetch ends in an HTTP status error and a room with only
\* other users' membership keys get no leave, and neither makes the scan
\* raise.
C6_LeavesOwnCallsOnly ==
    /\ \A k \in 1..Len(seen) :
         /\ (k < si \/ spc = "done") => (Left(k) <=> (seen[k].result = "ok" /\ seen[k].own))
         /\ Left(k) => (seen[k].result = "ok" /\ seen[k].own)
         /\ (k = si /\ seen[k].result = "ok" /\ seen[k].own) => Left(k)
    /\ (spc = "raised" /\ serr = "room_state") => seen[si].result = "other_error"
    /\ (spc = "raised" /\ serr = "leave_call") => seen[si].own
    /\ spc = "done" => Len(seen) = Len(room_ids)

C6_Witness ==
    /\ spc = "done"
    /\ Len(room_ids) = 3
    /\ seen[1] = Seen("ok", TRUE, FALSE)
    /\ seen[2] = Seen("status_error", FALSE, FALSE)
    /\ seen[3] = Seen("ok", FALSE, TRUE)
    /\ leaves = <<room_ids[1]>>
    /\ disconnected = <<room_ids[1]>>

\* C7: the scan is resilient per room: whatever error the state fetch or
\* the leave of one room ends in, the scan does not fail (only the joined
\* rooms request can make it raise).
C7_ScanNeverFailsOnARoom == spc = "raised" => serr = "joined_room_ids"

\* ------------------------------------------------ claims on the catch-up

\* the step that takes the catch-up response fetches no room state, invokes
\* no handler and sends no message, whatever the response holds
CatchUpEventsUnread ==
    [][pc = "catchup" =>
          (/\ pc' \in {"catchup", "poll", "raised", "crashed"}
           /\ pos' = NoPos
           /\ room' = "none"
           /\ fired' = <<>>
           /\ sent' = <<>>)]_vars

\* C21: the events in the response of the zero-timeout catch-up sync are
\* never dispatched (no room state fetch, no handler for them), and the
\* first long-poll, issued right after it, carries the cursor the catch-up
\* returned as its since, so that the server does not send the history
\* again.
C21_CatchUpNeverDispatched ==
    /\ CatchUpEventsUnread
    /\ [](pc = "catchup" => (request = [since |-> None, timeout_ms |-> 0] /\ data = <<>>))
    /\ [][(pc = "catchup" /\ pc' = "poll") =>
            (/\ request'.timeout_ms = SyncTimeoutMs
             /\ request'.since.some
             /\ request'.since = next_batch')]_vars

\* ------------------------------------------------ claims on the startup

StartupErrors == {"rtc_foci_missing", "whoami"}

\* C18: when discovery yields no RTC focus or the identity lookup fails,
\* run() ends with that error at once: up to then it has issued no sync
\* request, loaded no cursor and invoked no handler, the failure writes
\* nothing to the cursor file, and run() makes no further step (the failed
\* call is not made again; only a new process starts over).
C18_StartupFailuresFatal ==
    /\ [][(error = "none" /\ error' \in StartupErrors) =>
            (/\ pc \in {"init", "whoami"}
             /\ pc' = "raised"
             /\ ending' = "raise"
             /\ request = NoRequest /\ request' = NoRequest
             /\ next_batch = None /\ next_batch' = None
             /\ obtained = None /\ obtained' = None
             /\ fired = <<>> /\ fired' = <<>>
             /\ batch_file' = batch_file)]_vars
    /\ [][(pc = "raised" /\ error \in StartupErrors) =>
            (/\ pc' \in {"raised", "init"}
             /\ pc' = "init" => (error' = "none" /\ closeCount' = 0 /\ transport' = "none")
             /\ request' = NoRequest
             /\ fired' = <<>>
             /\ batch_file' = batch_file)]_vars
    /\ [](error \in StartupErrors => pc = "raised")

C18_Witness ==
    /\ pc = "raised"
    /\ error = "whoami"
    /\ batch_file = File(<<"a">>)
    /\ request = NoRequest

\* --------------------------------------------- claims on the dispatch

Dispatching == {"room_state", "handler", "send_error"}

EventAt(d, q) == d[q[1]].events[q[2]]

\* the events of the response after position p that pass the checks of
\* lines 175-185
Pending(d, p) == {q \in Positions(d) : Before(p, q) /\ Qualifies(EventAt(d, q))}

\* C13: the sync loop is strictly sequential: a sync request is in flight
\* only while run() waits for it and then no event is being dispatched; a
\* handler is invoked only when none is in progress, for the event whose
\* room state was just fetched; and the next poll is issued only from the
\* last matching event of the batch, after its handler returned or raised
\* (or when it has no handler).
C13_StrictlySequential ==
    /\ [](request # NoRequest <=> pc \in {"catchup", "poll"})
    /\ [](pc \in {"catchup", "poll"} => (pos = NoPos /\ fired = <<>>))
    /\ [](pc \in Dispatching => (pos \in Positions(data) /\ Qualifies(EventAt(data, pos))))
    /\ [](pc \in {"handler", "send_error"} =>
            (fired # <<>> /\ fired[Len(fired)] = pos
             /\ CmdName(EventAt(data, pos)) \in Commands))
    /\ [][(fired' # fired /\ fired' # <<>>) =>
            (pc = "room_state" /\ pc' = "handler" /\ pos' = pos
             /\ fired' = Append(fired, pos))]_vars
    /\ [][(pc \in Dispatching /\ pc' = "poll") =>
            (/\ Pending(data, pos) = {}
             /\ pc = "room_state" => CmdName(EventAt(data, pos)) \notin Commands)]_vars

C13_Witness ==
    /\ pc = "handler"
    /\ Len(fired) = 2
    /\ fired[2] = pos
    /\ request = NoRequest

\* C14: handlers fire in delivery order: the events of a response are
\* taken in the order of the response, the next one only when the handling
\* of the one before is over, and after a handler has raised the events
\* after it are still dispatched, in their order (only a cancellation or
\* the death of the process stops the batch).
C14_DeliveryOrder ==
    /\ [](\A i, j \in 1..Len(fired) : i < j => Before(fired[i], fired[j]))
    /\ [][(pc \in Dispatching /\ pc' = "room_state" /\ pos' # pos) =>
            (pos' \in Pending(data, pos)
             /\ \A q \in Pending(data, pos) : q = pos' \/ Before(pos', q))]_vars
    /\ [][(pc = "send_error" /\ Pending(data, pos) # {}) =>
            \/ pc' \in {"send_error", "room_state", "crashed"}
            \/ pc' = "closing" /\ cancelAt' # "none"]_vars

LoopErrors == {"sync", "room_state", "from_state_events"}

\* C20: a failure of the long-poll, of the room state fetch or of the room
\* construction inside the poll loop is not retried: run() leaves its loop
\* at once with no request in flight and no event in hand, closes the
\* transport and ends with that error; it issues no further poll and
\* dispatches no later event of the batch.
C20_LoopFailurePropagates ==
    /\ [][(pc \in {"poll", "room_state"} /\ error = "none" /\ error' \in LoopErrors) =>
            (/\ pc' = "closing"
             /\ ending' = "raise"
             /\ request' = NoRequest
             /\ pos' = NoPos
             /\ pc = "poll" => error' = "sync")]_vars
    /\ [][(pc = "closing" /\ error \in LoopErrors) =>
            (/\ pc' \in {"closing", "raised", "crashed"}
             /\ pc' = "raised" => (error' = error /\ closeCount' = 1)
             /\ request' = NoRequest
             /\ pos' = NoPos)]_vars
    /\ [][(pc = "raised" /\ error \in LoopErrors) => pc' \in {"raised", "init"}]_vars
    /\ [](error \in LoopErrors =>
            (pc \in {"closing", "raised"} /\ ending = "raise" /\ request = NoRequest
             /\ pos = NoPos /\ fired = <<>>))

C20_Witness ==
    /\ pc = "raised"
    /\ error = "from_state_events"
    /\ closeCount = 1
    /\ request = NoRequest

\* ------------------------------------------ claims on command parsing

\* the first white-space-delimited word of b (empty when b has none)
FirstWord(b) ==
    LET starts == {i \in 1..Len(b) : b[i] \notin WhiteSpace}
    IN  IF starts = {} THEN <<>>
        ELSE LET i == CHOOSE k \in starts : \A o \in starts : k <= o
                 ends == {k \in i..Len(b) : b[k] \in WhiteSpace}
                 j == IF ends = {} THEN Len(b) + 1
                      ELSE CHOOSE k \in ends : \A o \in ends : k <= o
             IN  SubSeq(b, i, j - 1)

Spaces(b) == {i \in 1..Len(b) : b[i] = " "}

\* the characters of b before its first space (all of b when it has none)
FirstSpaceWord(b) ==
    IF Spaces(b) = {} THEN b
    ELSE SubSeq(b, 1, (CHOOSE k \in Spaces(b) : \A o \in Spaces(b) : k <= o) - 1)

PingExtraWords ==
    <<"!", "p", "i", "n", "g", " ", "e", "x", "t", "r", "a", " ", "w", "o", "r", "d", "s">>

\* the three bodies the claim names, with prefix !
ParsingExamples ==
    /\ ParseCommand(PingExtraWords, <<"!">>) =
          [invoked |-> TRUE, cmd_name |-> <<"p", "i", "n", "g">>,
           cmd_value |-> <<"e", "x", "t", "r", "a", " ", "w", "o", "r", "d", "s">>]
    /\ ~ParseCommand(<<"h", "e", "l", "l", "o">>, <<"!">>).invoked
    /\ ParseCommand(<<"!">>, <<"!">>).invoked
    /\ ParseCommand(<<"!">>, <<"!">>).cmd_name = <<>>

\* C15 as stated: a body yields an invocation exactly when its first
\* white-space-delimited word starts with the prefix; the name is that word
\* without the prefix; the argument is the rest of the body, so that prefix,
\* name, one space and argument give back a body that has an argument; and
\* the three named bodies parse as given.
C15_ParsesFirstWhitespaceWord ==
    upc = "parsed" =>
        /\ parsed.invoked <=> StartsWith(FirstWord(body), cmd_prefix)
        /\ parsed.invoked =>
              /\ cmd_prefix \o parsed.cmd_name = FirstWord(body)
              /\ parsed.cmd_value # <<>> =>
                    cmd_prefix \o parsed.cmd_name \o <<" ">> \o parsed.cmd_value = body
        /\ ParsingExamples

\* C15 amended: a body yields an invocation exactly when its first
\* space-delimited word (the characters before its first space, empty when
\* the body starts with a space) starts with the prefix; the name is that
\* word without the prefix; the argument is everything after the first
\* space, verbatim, so that prefix, name, one space and argument give back a
\* body that has a space, and prefix and name a body that has none; and the
\* three named bodies parse as given.
C15_ParsesFirstSpaceWord ==
    upc = "parsed" =>
        /\ parsed.invoked <=> StartsWith(FirstSpaceWord(body), cmd_prefix)
        /\ parsed.invoked =>
              /\ cmd_prefix \o parsed.cmd_name = FirstSpaceWord(body)
              /\ IF Spaces(body) # {}
                 THEN cmd_prefix \o parsed.cmd_name \o <<" ">> \o parsed.cmd_value = body
                 ELSE parsed.cmd_value = <<>> /\ cmd_prefix \o parsed.cmd_name = body
        /\ ParsingExamples

C15_Witness ==
    /\ upc = "parsed"
    /\ cmd_prefix = <<"!">>
    /\ body = <<"!", "p", " ", "\n">>
    /\ parsed = [invoked |-> TRUE, cmd_name |-> <<"p">>, cmd_value |-> <<"\n">>]

\* ------------------------------------------ claims on the skipped events

\* a message event with a string body whose first word has the prefix
Prefixed(e) ==
    /\ e.type = "m.room.message"
    /\ e.body.isStr
    /\ StartsWith(FirstSpaceWord(e.body.val), CmdPrefix)

\* the name of a prefixed message is in the registry
Registered(e) ==
    LET word == FirstSpaceWord(e.body.val)
    IN  SubSeq(word, Len(CmdPrefix) + 1, Len(word)) \in Commands

\* the events of the response d before position q
Earlier(d, q) == {o \in Positions(d) : Before(o, q)}

\* a room state is fetched for prefixed messages only and a handler is
\* invoked for registered names only; a message is sent only after a
\* handler was invoked; and the loop takes the first prefixed message after
\* the one it leaves, so that every event in between was passed over
\* without a room state fetch, a handler or a message
SkippedWithoutEffect ==
    /\ [](pc \in Dispatching => Prefixed(EventAt(data, pos)))
    /\ [](\A n \in 1..Len(fired) :
            Prefixed(EventAt(data, fired[n])) /\ Registered(EventAt(data, fired[n])))
    /\ [][(sent' # sent /\ sent' # <<>>) =>
            (pc = "send_error" /\ fired # <<>> /\ fired[Len(fired)] = pos
             /\ sent' = Append(sent, data[pos[1]].room_id))]_vars
    /\ [][(pc' = "room_state" /\ (pc = "poll" \/ pos' # pos)) =>
            \A o \in Earlier(data', pos') :
                (pc \in Dispatching /\ ~Before(pos, o)) \/ ~Prefixed(EventAt(data', o))]_vars
    /\ [][(pc \in Dispatching /\ pc' = "poll") =>
            \A o \in Positions(data) : Before(pos, o) => ~Prefixed(EventAt(data, o))]_vars

\* the room state of a prefixed message whose name is not registered is
\* awaited
AtUnregistered == pc = "room_state" /\ ~Registered(EventAt(data, pos))

\* C22 as stated: an event that is not a message, has no string body or
\* lacks the prefix triggers no room state fetch, no handler and no
\* message; a prefixed message whose name is not in the registry triggers
\* no handler and no message; and in all these cases the loop goes on to
\* the next event (only a cancellation or the death of the process stops
\* it there).
C22_SkippedAlwaysGoesOn ==
    /\ SkippedWithoutEffect
    /\ [][AtUnregistered =>
            (/\ fired' \in {fired, <<>>}
             /\ sent' \in {sent, <<>>}
             /\ \/ pc' \in {"room_state", "poll", "crashed"}
                \/ pc' = "closing" /\ cancelAt' # "none")]_vars

\* C22 amended: an event that is not a message, has no string body or
\* lacks the prefix triggers no room state fetch, no handler and no
\* message, and the loop goes on to the next event; a prefixed message
\* whose name is not in the registry triggers no handler and no message,
\* and the loop goes on to the next event when the room state fetch and the
\* room construction made for it succeed: when one of them fails, run()
\* ends with that error.
C22_SkippedGoesOnAfterFetch ==
    /\ SkippedWithoutEffect
    /\ [][AtUnregistered =>
            (/\ fired' \in {fired, <<>>}
             /\ sent' \in {sent, <<>>}
             /\ \/ pc' \in {"room_state", "poll", "crashed"}
                \/ pc' = "closing" /\ cancelAt' # "none"
                \/ (pc' = "closing" /\ ending' = "raise"
                    /\ error' \in {"room_state", "from_state_events"}))]_vars

\* the loop has passed the unregistered !q and waits for the handler of the
\* event after it
C22_Witness ==
    /\ pc = "handler"
    /\ data = <<[room_id |-> "r1",
                 events |-> <<[type |-> "m.room.message", body |-> Str(<<"!", "q">>)],
                              [type |-> "m.room.message",
                               body |-> Str(<<"!", "p", " ", "x">>)]>>]>>
    /\ pos = <<1, 2>>
    /\ fired = <<<<1, 2>>>>
    /\ sent = <<>>

\* ------------------------------------------ claims on the focus selection

\* run() has made its selection from the discovered list: it waits for
\* whoami, or it has failed at lines 140-146
AfterSelection ==
    \/ pc = "whoami"
    \/ pc = "raised" /\ error \in {"rtc_foci_missing", "rtc_handler"}

LivekitAt(l) == {i \in 1..Len(l) : l[i].type = "livekit"}

\* the entry the claim says is selected from a list that is not empty
Expected(l) ==
    IF LivekitAt(l) # {}
    THEN l[CHOOSE i \in LivekitAt(l) : \A o \in LivekitAt(l) : i <= o]
    ELSE l[1]

\* C16 as stated: from a list with an entry of type livekit the first such
\* entry is selected; from any other list that is not empty the first entry
\* is selected and startup proceeds with it; from the empty list nothing is
\* selected and run() fails before a session is created.
C16_SelectionAlwaysProceeds ==
    AfterSelection =>
        /\ rtc_foci # <<>> => rtc_foci_preferred(rtc_foci) = Expected(rtc_foci)
        /\ pc = "whoami" => rtc = Expected(rtc_foci)
        /\ (rtc_foci # <<>> /\ LivekitAt(rtc_foci) = {}) => (pc = "whoami" /\ rtc = rtc_foci[1])
        /\ rtc_foci = <<>> =>
              (rtc_foci_preferred(rtc_foci) = NoFocus /\ pc = "raised"
               /\ error = "rtc_foci_missing" /\ transport = "none" /\ rtc = NoFocus)

\* C16 amended: from a list with an entry of type livekit the first such
\* entry is selected; from any other list that is not empty the first entry
\* is selected; startup proceeds with the selected entry when it carries a
\* service URL and fails at the construction of the RTC handler when it
\* does not; from the empty list nothing is selected and run() fails before
\* a session is created.
C16_SelectionNeedsServiceUrl ==
    AfterSelection =>
        /\ rtc_foci # <<>> =>
              /\ rtc_foci_preferred(rtc_foci) = Expected(rtc_foci)
              /\ IF Expected(rtc_foci).livekit_service_url.some
                 THEN pc = "whoami" /\ rtc = Expected(rtc_foci) /\ transport = "open"
                 ELSE pc = "raised" /\ error = "rtc_handler" /\ rtc = NoFocus
        /\ rtc_foci = <<>> =>
              (rtc_foci_preferred(rtc_foci) = NoFocus /\ pc = "raised"
               /\ error = "rtc_foci_missing" /\ transport = "none" /\ rtc = NoFocus)

C16_Witness ==
    /\ pc = "whoami"
    /\ rtc_foci = <<[type |-> "other", livekit_service_url |-> None],
                    [type |-> "livekit", livekit_service_url |-> Some("u")]>>
    /\ rtc = [type |-> "livekit", livekit_service_url |-> Some("u")]

\* ------------------------------------------- claims on the cursor store

\* C11: on a fresh start (the cursor file absent or blank, so that load()
\* yields no cursor) the one zero-timeout sync is followed by the first
\* long-poll only with the cursor it returned in the persistent store: a
\* load() at that moment gives that cursor back.
C11_FreshStartCursorStored ==
    [][(pc = "catchup" /\ pc' = "poll" /\ next_batch'.some /\ next_batch'.val # <<>>) =>
          /\ request = SyncRequest(None, 0)
          /\ LoadNextBatch(batch_file) = None
          /\ LoadNextBatch(batch_file') = next_batch']_vars

Blank(t) == \A i \in 1..Len(t) : t[i] \in WhiteSpace

Trimmed(x) == x # <<>> /\ x[1] \notin WhiteSpace /\ x[Len(x)] \notin WhiteSpace

====
